---- MODULE Spec2Model ----
(***************************************************************************)
(* ConfigManager (src/config_manager/config_manager.py) as a state machine. *)
(*                                                                         *)
(* A Python str is a sequence of one-character strings, so that path       *)
(* joining, JSON escaping, parsing and line splitting are computed         *)
(* character by character.  A Python dict is the sequence of its           *)
(* <<key, value>> pairs in insertion order, with no key twice.  A value of *)
(* the configuration document is tagged: Str(s) is a str, Obj(d) a dict.   *)
(***************************************************************************)
EXTENDS Integers, Sequences, FiniteSets, TLC

VARIABLES
    fs,             \* the filesystem: path -> absent, a directory or a file's text
    assigned,       \* the attributes the instance has (the keys of its __dict__)
    cfg_path,       \* self.cfg_path
    cfg,            \* self.cfg, the configuration document
    volumes,        \* self.volumes, cached by __init__
    cfg_container,  \* self.cfg_container, cached by __init__
    ret,            \* what the last call returned or raised
    cfg_at_init,    \* history: the document as __init__ left it
    last_written,   \* history: what write_config last wrote, until others write there
    n_mut,          \* number of caller mutations of the document so far
    n_ext           \* number of writes to files by others so far

vars == <<fs, assigned, cfg_path, cfg, volumes, cfg_container, ret, cfg_at_init, last_written,
          n_mut, n_ext>>

---------------------------------------------------------------------------
(* Bounds of the model *)

\* entries per category in the documents the views are derived from
MaxEntries == 2
\* caller mutations of the document in one behaviour
MaxMutations == 1
\* writes by others to files in one behaviour
MaxExternalWrites == 1
\* characters of a requirements file
MaxFileLen == 4

---------------------------------------------------------------------------
(* str *)

StartsWith(s, c) == Len(s) > 0 /\ s[1] = c
EndsWith(s, c) == Len(s) > 0 /\ s[Len(s)] = c

\* what str.strip() removes (of the characters the model uses)
Whitespace == {" ", "\t", "\n", "\r", "\f"}

\* str.strip(): what is left between the first and the last character that is
\* not whitespace
strip(s) ==
    LET solid == {i \in 1..Len(s) : s[i] \notin Whitespace}
        first == CHOOSE i \in solid : \A j \in solid : i <= j
        last == CHOOSE i \in solid : \A j \in solid : i >= j
    IN  IF solid = {} THEN <<>> ELSE SubSeq(s, first, last)

---------------------------------------------------------------------------
(* dict *)

Str(s) == [t |-> "str", v |-> s]
Obj(d) == [t |-> "dict", v |-> d]
IsStr(x) == x.t = "str"
IsObj(x) == x.t = "dict"

Has(d, k) == \E i \in 1..Len(d) : d[i][1] = k
IndexOf(d, k) == CHOOSE i \in 1..Len(d) : d[i][1] = k
Get(d, k) == d[IndexOf(d, k)][2]
\* d.get(k, default)
GetOr(d, k, default) == IF Has(d, k) THEN Get(d, k) ELSE default
\* d[k] = v: a new key goes last, an old key keeps its place
Put(d, k, v) ==
    IF Has(d, k) THEN [d EXCEPT ![IndexOf(d, k)] = <<k, v>>] ELSE Append(d, <<k, v>>)
\* del d[k]
Del(d, k) == SubSeq(d, 1, IndexOf(d, k) - 1) \o SubSeq(d, IndexOf(d, k) + 1, Len(d))
KeySet(d) == {d[i][1] : i \in 1..Len(d)}

ValEq(x, y) ==
    /\ x.t = y.t
    /\ IF IsStr(x) THEN x.v = y.v
       ELSE /\ KeySet(x.v) = KeySet(y.v)
            /\ \A k \in KeySet(x.v) : Get(x.v, k) = Get(y.v, k)

\* d1 == d2 for configuration documents
DictEq(d1, d2) ==
    /\ KeySet(d1) = KeySet(d2)
    /\ \A k \in KeySet(d1) : ValEq(Get(d1, k), Get(d2, k))

---------------------------------------------------------------------------
(* os.path.join, as posixpath computes it: a component that starts with "/" *)
(* discards what precedes it, and no second "/" follows a "/".              *)

RECURSIVE JoinFrom(_, _, _)
JoinFrom(path, p, i) ==
    IF i > Len(p) THEN path
    ELSE LET b == p[i]
         IN JoinFrom(IF StartsWith(b, "/") THEN b
                     ELSE IF path = <<>> \/ EndsWith(path, "/") THEN path \o b
                     ELSE path \o <<"/">> \o b,
                     p, i + 1)

os_path_join(a, p) == JoinFrom(a, p, 1)

---------------------------------------------------------------------------
(* The names the code uses *)

data_dirs == <<"d", "a", "t", "a", "_", "d", "i", "r", "s">>
system_dirs == <<"s", "y", "s", "t", "e", "m", "_", "d", "i", "r", "s">>
workspace == <<"w", "o", "r", "k", "s", "p", "a", "c", "e">>
vlm_run == <<"v", "l", "m", "_", "r", "u", "n">>
eval_run == <<"e", "v", "a", "l", "_", "r", "u", "n">>
\* the suffix of f"{package_type}_packages"
packages_suffix == <<"_", "p", "a", "c", "k", "a", "g", "e", "s">>
\* the categories get_volumes and get_container_config walk, in this order
dir_types == <<data_dirs, system_dirs>>

---------------------------------------------------------------------------
(* get_volumes and get_container_config on a document *)

container_path(base_container_path, dir_type, dir_name) ==
    os_path_join(<<"/">>, <<base_container_path, dir_type, dir_name>>)

\* a faulty variant of the inner loop: a host path met again keeps its first
\* container path (volumes.setdefault)
RECURSIVE VolumesOfItemsKeepFirst(_, _, _, _, _)
VolumesOfItemsKeepFirst(items, i, dir_type, base_container_path, vols) ==
    IF i > Len(items) THEN vols
    ELSE VolumesOfItemsKeepFirst(items, i + 1, dir_type, base_container_path,
             IF Has(vols, items[i][2].v) THEN vols
             ELSE Put(vols, items[i][2].v,
                      container_path(base_container_path, dir_type, items[i][1])))

\* the inner loop of get_volumes: volumes[host_path] = container_path for each item
RECURSIVE VolumesOfItems(_, _, _, _, _)
VolumesOfItems(items, i, dir_type, base_container_path, vols) ==
    IF i > Len(items) THEN vols
    ELSE VolumesOfItems(items, i + 1, dir_type, base_container_path,
                        Put(vols, items[i][2].v,
                            container_path(base_container_path, dir_type, items[i][1])))

\* the outer loop of get_volumes
RECURSIVE VolumesOfTypes(_, _, _, _)
VolumesOfTypes(doc, t, base_container_path, vols) ==
    IF t > Len(dir_types) THEN vols
    ELSE VolumesOfTypes(doc, t + 1, base_container_path,
                        VolumesOfItems(GetOr(doc, dir_types[t], Obj(<<>>)).v, 1, dir_types[t],
                                       base_container_path, vols))

get_volumes(doc, base_container_path) == VolumesOfTypes(doc, 1, base_container_path, <<>>)

container_dir(dir_type, dir_name) == os_path_join(<<"/">>, <<workspace, dir_type, dir_name>>)

\* the inner loop of get_container_config: one entry per name of the category
RECURSIVE ContainerOfNames(_, _, _, _)
ContainerOfNames(items, i, dir_type, out) ==
    IF i > Len(items) THEN out
    ELSE ContainerOfNames(items, i + 1, dir_type,
                          Put(out, items[i][1], container_dir(dir_type, items[i][1])))

\* the outer loop of get_container_config: only the categories the document has
RECURSIVE ContainerOfTypes(_, _, _)
ContainerOfTypes(doc, t, container_cfg) ==
    IF t > Len(dir_types) THEN container_cfg
    ELSE ContainerOfTypes(doc, t + 1,
             IF Has(doc, dir_types[t])
             THEN Put(container_cfg, dir_types[t],
                      ContainerOfNames(Get(doc, dir_types[t]).v, 1, dir_types[t], <<>>))
             ELSE container_cfg)

get_container_config(doc) == ContainerOfTypes(doc, 1, <<>>)

---------------------------------------------------------------------------
(* json.dump(obj, f, ensure_ascii=False, indent=4) *)

\* a faulty variant of the encoder: the backslash is written as it is
EscapeCharPlainBackslash(c) ==
    CASE c = "\"" -> <<"\\", "\"">>
      [] c = "\n" -> <<"\\", "n">>
      [] c = "\r" -> <<"\\", "r">>
      [] c = "\t" -> <<"\\", "t">>
      [] c = "\f" -> <<"\\", "f">>
      [] OTHER -> <<c>>

\* what the encoder writes for one character of a str: the quote, the backslash
\* and the control characters are escaped, any other character is written as it is
EscapeChar(c) ==
    CASE c = "\"" -> <<"\\", "\"">>
      [] c = "\\" -> <<"\\", "\\">>
      [] c = "\n" -> <<"\\", "n">>
      [] c = "\r" -> <<"\\", "r">>
      [] c = "\t" -> <<"\\", "t">>
      [] c = "\f" -> <<"\\", "f">>
      [] OTHER -> <<c>>

\* the concatenation of the sequences pieces[lo], ..., pieces[hi]
RECURSIVE Concat(_, _, _)
Concat(pieces, lo, hi) ==
    IF lo > hi THEN <<>>
    ELSE IF lo = hi THEN pieces[lo]
    ELSE Concat(pieces, lo, (lo + hi) \div 2) \o Concat(pieces, (lo + hi) \div 2 + 1, hi)

\* the characters ESCAPE matches
Escaped == {"\"", "\\", "\n", "\r", "\t", "\f"}

\* ESCAPE.sub(replace, s) in quotes: each character ESCAPE matches is replaced
encode_str(s) ==
    <<"\"">>
    \o (IF \A i \in 1..Len(s) : s[i] \notin Escaped THEN s
        ELSE Concat([i \in 1..Len(s) |-> EscapeChar(s[i])], 1, Len(s)))
    \o <<"\"">>

\* one indentation step
indent == 4

newline_indent(level) == <<"\n">> \o [i \in 1..(indent * level) |-> " "]

\* a str in quotes; a dict as "{}" when empty, and else with each item on a line
\* of its own, one step deeper, as "key": value, the items separated by ","
RECURSIVE encode_value(_, _)
encode_value(x, level) ==
    IF IsStr(x) THEN encode_str(x.v)
    ELSE IF x.v = <<>> THEN <<"{", "}">>
    ELSE <<"{">>
         \o Concat([i \in 1..Len(x.v) |->
                       (IF i > 1 THEN <<",">> ELSE <<>>)
                       \o newline_indent(level + 1)
                       \o encode_str(x.v[i][1]) \o <<":", " ">>
                       \o encode_value(x.v[i][2], level + 1)],
                   1, Len(x.v))
         \o newline_indent(level) \o <<"}">>

json_dump(doc) == encode_value(Obj(doc), 0)

---------------------------------------------------------------------------
(* json.load: the decoder for objects and strings, the values a document is *)
(* made of.  A text the decoder refuses is a JSONDecodeError.  Numbers,     *)
(* arrays, literals and \u escapes are not decoded here: no file of the     *)
(* model holds one.                                                         *)

Parsed(x, e) == [ok |-> TRUE, val |-> x, end |-> e]
Refused == [ok |-> FALSE, val |-> Str(<<>>), end |-> 0]

Indices(s) == [i \in 1..Len(s) |-> i]

JsonWhitespace == {" ", "\t", "\n", "\r"}
ControlChars == {"\n", "\r", "\t", "\f"}
\* the characters that may follow a backslash
Escapes == {"\"", "\\", "/", "n", "r", "t", "f"}

\* the first position from i on that holds no whitespace (Len(s) + 1 when none)
SkipWs(s, i) ==
    CHOOSE j \in i..(Len(s) + 1) :
        /\ j = Len(s) + 1 \/ s[j] \notin JsonWhitespace
        /\ \A m \in i..(j - 1) : s[m] \in JsonWhitespace

\* the character an escape sequence stands for
UnescapeChar(c) ==
    CASE c = "n" -> "\n"
      [] c = "r" -> "\r"
      [] c = "t" -> "\t"
      [] c = "f" -> "\f"
      [] OTHER -> c

\* what ends a chunk of plain characters of a string (STRINGCHUNK)
Terminators == {"\"", "\\"} \cup ControlChars

\* the first terminator from position i on (Len(s) + 1 when there is none)
NextTerminator(s, i) ==
    CHOOSE m \in i..(Len(s) + 1) :
        /\ m = Len(s) + 1 \/ s[m] \in Terminators
        /\ \A q \in i..(m - 1) : s[q] \notin Terminators

\* scanstring, from position i inside a string, with the characters acc decoded
\* so far: a chunk of plain characters runs to the next terminator t; a quote
\* ends the string, a backslash escapes the character after it, and a control
\* character, an unknown escape or the end of the text is refused
RECURSIVE scanstring(_, _, _)
ScanChunk(s, i, acc, t) ==
    IF t > Len(s) THEN Refused
    ELSE IF s[t] = "\"" THEN Parsed(acc \o SubSeq(s, i, t - 1), t + 1)
    ELSE IF s[t] = "\\" /\ t < Len(s) /\ s[t + 1] \in Escapes
    THEN scanstring(s, t + 2, Append(acc \o SubSeq(s, i, t - 1), UnescapeChar(s[t + 1])))
    ELSE Refused

scanstring(s, i, acc) == ScanChunk(s, i, acc, NextTerminator(s, i))

RECURSIVE scan_once(_, _)
RECURSIVE JSONObjectPairs(_, _, _)

\* after "key": value, at position after: "}" ends the object, "," and the
\* opening quote of the next key continue it; a key met again keeps its place
\* and takes the later value
AfterValue(s, pairs, key, value, after) ==
    IF after > Len(s) THEN Refused
    ELSE IF s[after] = "}" THEN Parsed(Obj(Put(pairs, key.val, value.val)), after + 1)
    ELSE IF s[after] = "," /\ SkipWs(s, after + 1) <= Len(s) /\ s[SkipWs(s, after + 1)] = "\""
    THEN JSONObjectPairs(s, SkipWs(s, after + 1) + 1, Put(pairs, key.val, value.val))
    ELSE Refused

\* the value of a member
MemberValue(s, pairs, key, value) ==
    IF ~value.ok THEN Refused ELSE AfterValue(s, pairs, key, value, SkipWs(s, value.end))

\* after the key, at position colon: ":" and the value
AfterKey(s, pairs, key, colon) ==
    IF colon <= Len(s) /\ s[colon] = ":"
    THEN MemberValue(s, pairs, key, scan_once(s, SkipWs(s, colon + 1)))
    ELSE Refused

\* the key of a member
MemberKey(s, pairs, key) ==
    IF ~key.ok THEN Refused ELSE AfterKey(s, pairs, key, SkipWs(s, key.end))

\* the loop of JSONObject over the members "key": value; i is at the character
\* after the opening quote of a key
JSONObjectPairs(s, i, pairs) == MemberKey(s, pairs, scanstring(s, i, <<>>))

\* JSONObject: j is at the first character after "{" that is no whitespace
ObjectFrom(s, j) ==
    IF j > Len(s) THEN Refused
    ELSE IF s[j] = "}" THEN Parsed(Obj(<<>>), j + 1)
    ELSE IF s[j] # "\"" THEN Refused
    ELSE JSONObjectPairs(s, j + 1, <<>>)

JSONObject(s, i) == ObjectFrom(s, SkipWs(s, i))

StrOf(r) == IF r.ok THEN Parsed(Str(r.val), r.end) ELSE Refused

scan_once(s, i) ==
    IF i > Len(s) THEN Refused
    ELSE IF s[i] = "\"" THEN StrOf(scanstring(s, i + 1, <<>>))
    ELSE IF s[i] = "{" THEN JSONObject(s, i + 1)
    ELSE Refused

\* JSONDecoder.decode: one value, and nothing but whitespace after it
Decoded(s, r) == IF r.ok /\ SkipWs(s, r.end) = Len(s) + 1 THEN r ELSE Refused

json_loads(s) == Decoded(s, scan_once(s, SkipWs(s, 1)))

---------------------------------------------------------------------------
(* Files *)

Absent == [kind |-> "absent", text |-> <<>>]
Directory == [kind |-> "dir", text |-> <<>>]
File(text) == [kind |-> "file", text |-> text]

\* os.path.exists
exists(path) == path \in DOMAIN fs /\ fs[path].kind # "absent"

\* what a file opened for reading in text mode yields: "\r\n" and "\r" become "\n"
ReadText(raw) ==
    LET Kept(i) == ~(raw[i] = "\n" /\ i > 1 /\ raw[i - 1] = "\r")
        kept == SelectSeq(Indices(raw), Kept)
    IN  IF \A i \in 1..Len(raw) : raw[i] # "\r" THEN raw
        ELSE [k \in 1..Len(kept) |-> IF raw[kept[k]] = "\r" THEN "\n" ELSE raw[kept[k]]]

\* the lines a text file iterates over: each ends with its "\n", but for a last
\* line that has none
SplitLines(s) ==
    LET IsEnd(i) == s[i] = "\n"
        ends == SelectSeq(Indices(s), IsEnd)
        last == IF ends = <<>> THEN 0 ELSE ends[Len(ends)]
        whole == [k \in 1..Len(ends) |->
                     SubSeq(s, (IF k = 1 THEN 0 ELSE ends[k - 1]) + 1, ends[k])]
    IN  IF last < Len(s) THEN Append(whole, SubSeq(s, last + 1, Len(s))) ELSE whole

\* a faulty variant of the comprehension, without its condition
StripEvery(lines) == [k \in 1..Len(lines) |-> strip(lines[k])]

\* [line.strip() for line in f if line.strip()]
StripNonEmpty(lines) ==
    LET NonEmpty(x) == x # <<>>
    IN  SelectSeq([k \in 1..Len(lines) |-> strip(lines[k])], NonEmpty)

---------------------------------------------------------------------------
(* What a call does: it returns a value or raises, after opening some files *)

Return(op, arg, value, opened) ==
    [op |-> op, arg |-> arg, status |-> "ok", value |-> value, opened |-> opened]
Raise(op, arg, error, opened) ==
    [op |-> op, arg |-> arg, status |-> error, value |-> <<>>, opened |-> opened]
NoCall == [op |-> "none", arg |-> <<>>, status |-> "none", value |-> <<>>, opened |-> <<>>]

\* json.load(f) of read_config
Loaded(path, r) ==
    IF r.ok THEN Return("read_config", path, r.val, <<path>>)
    ELSE Raise("read_config", path, "JSONDecodeError", <<path>>)

\* read_config(cfg_path)
read_config(path) ==
    IF ~exists(path) THEN Raise("read_config", path, "FileNotFoundError", <<>>)
    ELSE IF fs[path].kind = "dir" THEN Raise("read_config", path, "IsADirectoryError", <<>>)
    ELSE Loaded(path, json_loads(ReadText(fs[path].text)))

\* what self.cfg.get(file_key) returns for a key the document does not have
None == [t |-> "None", v |-> <<>>]

\* load_packages from the value of the field on: None, "" and {} are not true
packages_at(package_type, file_path) ==
    IF file_path.v = <<>> THEN Raise("load_packages", package_type, "FileNotFoundError", <<>>)
    ELSE IF IsObj(file_path) THEN Raise("load_packages", package_type, "TypeError", <<>>)
    ELSE IF ~exists(file_path.v)
    THEN Raise("load_packages", package_type, "FileNotFoundError", <<>>)
    ELSE IF fs[file_path.v].kind = "dir"
    THEN Raise("load_packages", package_type, "IsADirectoryError", <<>>)
    ELSE Return("load_packages", package_type,
                StripNonEmpty(SplitLines(ReadText(fs[file_path.v].text))), <<file_path.v>>)

\* a faulty variant of the lookup: self.cfg[file_key]
lookup_packages_subscript(doc, package_type) ==
    IF Has(doc, package_type \o packages_suffix)
    THEN packages_at(package_type, Get(doc, package_type \o packages_suffix))
    ELSE Raise("load_packages", package_type, "KeyError", <<>>)

\* file_key = f"{package_type}_packages"; file_path = self.cfg.get(file_key)
lookup_packages(doc, package_type) ==
    packages_at(package_type, GetOr(doc, package_type \o packages_suffix, None))

\* a faulty variant of load_packages, without the check of package_type
load_packages_unchecked(doc, package_type) == lookup_packages(doc, package_type)

\* load_packages(package_type) on document doc
load_packages(doc, package_type) ==
    IF package_type \notin {vlm_run, eval_run}
    THEN Raise("load_packages", package_type, "ValueError", <<>>)
    ELSE lookup_packages(doc, package_type)

---------------------------------------------------------------------------
(* get_default_config *)

user_config == <<"u", "s", "e", "r", "_", "c", "o", "n", "f", "i", "g">>
vlm_base == <<"v", "l", "m", "_", "b", "a", "s", "e">>
eval_docker_img == <<"e", "v", "a", "l", "_", "d", "o", "c", "k", "e", "r", "_", "i", "m", "g">>
benchmark_run_cfg == <<"b", "e", "n", "c", "h", "m", "a", "r", "k", "_", "r", "u", "n", "_",
        "c", "f", "g">>
\* the name "cfg" of system_dirs
system_dirs_cfg == <<"c", "f", "g">>

default_data_dirs ==
    << <<<<"d", "a", "t", "a", "s", "e", "t", "s">>, Str(<<"v", "l", "m", "h", "y", "p", "e",
        "r", "b", "e", "n", "c", "h", "/", "d", "a", "t", "a", "_", "d", "i", "r", "s", "/",
        "D", "a", "t", "a", "s", "e", "t", "s">>)>>,
       <<<<"m", "o", "d", "e", "l", "_", "a", "n", "s", "w", "e", "r", "s">>, Str(<<"v", "l",
        "m", "h", "y", "p", "e", "r", "b", "e", "n", "c", "h", "/", "d", "a", "t", "a", "_",
        "d", "i", "r", "s", "/", "M", "o", "d", "e", "l", "s", "A", "n", "s", "w", "e", "r",
        "s">>)>>,
       <<<<"m", "o", "d", "e", "l", "_", "m", "e", "t", "r", "i", "c", "s">>, Str(<<"v", "l",
        "m", "h", "y", "p", "e", "r", "b", "e", "n", "c", "h", "/", "d", "a", "t", "a", "_",
        "d", "i", "r", "s", "/", "M", "o", "d", "e", "l", "s", "M", "e", "t", "r", "i", "c",
        "s">>)>>,
       <<<<"p", "r", "o", "m", "p", "t", "_", "c", "o", "l", "l", "e", "c", "t", "i", "o", "n",
        "s">>, Str(<<"v", "l", "m", "h", "y", "p", "e", "r", "b", "e", "n", "c", "h", "/", "d",
        "a", "t", "a", "_", "d", "i", "r", "s", "/", "P", "r", "o", "m", "p", "t", "C", "o",
        "l", "l", "e", "c", "t", "i", "o", "n", "s">>)>>,
       <<<<"s", "y", "s", "t", "e", "m", "_", "p", "r", "o", "m", "p", "t", "s">>, Str(<<"v",
        "l", "m", "h", "y", "p", "e", "r", "b", "e", "n", "c", "h", "/", "d", "a", "t", "a",
        "_", "d", "i", "r", "s", "/", "S", "y", "s", "t", "e", "m", "P", "r", "o", "m", "p",
        "t", "s">>)>>,
       <<<<"r", "e", "p", "o", "r", "t", "s">>, Str(<<"v", "l", "m", "h", "y", "p", "e", "r",
        "b", "e", "n", "c", "h", "/", "d", "a", "t", "a", "_", "d", "i", "r", "s", "/", "R",
        "e", "p", "o", "r", "t", "s">>)>> >>

default_system_dirs ==
    << <<system_dirs_cfg, Str(<<"v", "l", "m", "h", "y", "p", "e", "r", "b", "e", "n", "c", "h",
        "/", "s", "y", "s", "t", "e", "m", "_", "d", "i", "r", "s", "/", "c", "f", "g">>)>>,
       <<<<"b", "e", "n", "c", "h", "_", "s", "t", "a", "g", "e", "s">>, Str(<<"v", "l", "m",
        "h", "y", "p", "e", "r", "b", "e", "n", "c", "h", "/", "s", "y", "s", "t", "e", "m",
        "_", "d", "i", "r", "s", "/", "b", "e", "n", "c", "h", "_", "s", "t", "a", "g", "e",
        "s">>)>>,
       <<<<"m", "o", "d", "e", "l", "_", "c", "a", "c", "h", "e">>, Str(<<"v", "l", "m", "h",
        "y", "p", "e", "r", "b", "e", "n", "c", "h", "/", "s", "y", "s", "t", "e", "m", "_",
        "d", "i", "r", "s", "/", "m", "o", "d", "e", "l", "_", "c", "a", "c", "h", "e">>)>>,
       <<<<"w", "h", "e", "e", "l", "s">>, Str(<<"v", "l", "m", "h", "y", "p", "e", "r", "b",
        "e", "n", "c", "h", "/", "s", "y", "s", "t", "e", "m", "_", "d", "i", "r", "s", "/",
        "w", "h", "e", "e", "l", "s">>)>> >>

\* the dict literal of get_default_config
default_cfg_literal ==
    << <<user_config, Str(<<"u", "s", "e", "r", "_", "c", "o", "n", "f", "i", "g", "_", "p",
        "r", "o", "m", "p", "t", "_", "e", "v", "a", "l", ".", "c", "s", "v">>)>>,
       <<vlm_base, Str(<<"v", "l", "m", "h", "y", "p", "e", "r", "b", "e", "n", "c", "h", "/",
        "v", "l", "m", "_", "b", "a", "s", "e", ".", "c", "s", "v">>)>>,
       <<data_dirs, Obj(default_data_dirs)>>,
       <<system_dirs, Obj(default_system_dirs)>>,
       <<eval_docker_img,
         Str(<<"g", "h", "c", "r", ".", "i", "o", "/", "v", "l", "m", "h", "y", "p", "e", "r",
        "b", "e", "n", "c", "h", "t", "e", "a", "m", "/", "m", "e", "t", "r", "i", "c", "-",
        "e", "v", "a", "l", "u", "a", "t", "o", "r", ":", "p", "y", "t", "h", "o", "n", "3",
        ".", "1", "0", "-", "s", "l", "i", "m", "_", "v", "0", ".", "1", ".", "0">>)>> >>

\* default_cfg["system_dirs"]["cfg"] joined with a file name
default_cfg_file(name) ==
    Str(os_path_join(Get(Get(default_cfg_literal, system_dirs).v, system_dirs_cfg).v, <<name>>))

get_default_config ==
    Put(Put(Put(default_cfg_literal,
                benchmark_run_cfg, default_cfg_file(<<"B", "e", "n", "c", "h", "m", "a", "r",
        "k", "R", "u", "n", "C", "o", "n", "f", "i", "g", ".", "j", "s", "o", "n">>)),
            vlm_run \o packages_suffix, default_cfg_file(<<"v", "l", "m", "_", "r", "u", "n",
        "_", "r", "e", "q", "u", "i", "r", "e", "m", "e", "n", "t", "s", ".", "t", "x", "t">>)),
        eval_run \o packages_suffix, default_cfg_file(<<"e", "v", "a", "l", "_", "r", "u", "n",
        "_", "r", "e", "q", "u", "i", "r", "e", "m", "e", "n", "t", "s", ".", "t", "x", "t">>))

---------------------------------------------------------------------------
(* __init__ *)

AllFields == {"cfg_path", "cfg", "volumes", "cfg_container"}

\* what __init__ leaves in the new instance, and how it ends, when r is what
\* populating self.cfg returned or raised
Populated(path, r) ==
    IF r.status # "ok"
    THEN \* read_config raised: self.cfg_path is set, self.cfg is not
         [assigned |-> {"cfg_path"}, cfg |-> <<>>, volumes |-> <<>>,
          cfg_container |-> <<>>, ret |-> [r EXCEPT !.op = "__init__"]]
    ELSE IF ~IsObj(r.value)
    THEN \* the file holds a str: self.cfg.get raises in get_volumes
         [assigned |-> {"cfg_path", "cfg"}, cfg |-> r.value.v, volumes |-> <<>>,
          cfg_container |-> <<>>,
          ret |-> Raise("__init__", path, "AttributeError", r.opened)]
    ELSE [assigned |-> AllFields, cfg |-> r.value.v,
          volumes |-> get_volumes(r.value.v, workspace),
          cfg_container |-> get_container_config(r.value.v),
          ret |-> Return("__init__", path, <<>>, r.opened)]

\* __init__(path, default)
init_result(path, default) ==
    Populated(path, IF default THEN Return("get_default_config", path, Obj(get_default_config),
        <<>>)
                    ELSE read_config(path))

Constructed == assigned = AllFields

---------------------------------------------------------------------------
(* The files and the inputs of the model *)

\* cfg_path of example.py
CfgPath == <<"v", "l", "m", "h", "y", "p", "e", "r", "b", "e", "n", "c", "h", "/", "c", "f",
        "g", "/", "V", "L", "M", "H", "y", "p", "e", "r", "B", "e", "n", "c", "h", "_", "c",
        "o", "n", "f", "i", "g", ".", "j", "s", "o", "n">>
\* a directory
DirPath == <<"d">>
\* a requirements file
ReqPath == <<"r">>
\* a path at which there is nothing
MissingPath == <<"m">>
DefaultVlmReq == Get(get_default_config, vlm_run \o packages_suffix).v
DefaultEvalReq == Get(get_default_config, eval_run \o packages_suffix).v

Paths == {CfgPath, DirPath, ReqPath, MissingPath, DefaultVlmReq, DefaultEvalReq}

\* the requirements text of the specification's example
ExampleText == <<"\n", " ", "f", "o", "o", " ", "\n", "\n", "b", "a", "r", "\n">>

\* names and host paths of the entries of a category
Names == {<<"a">>, <<"b">>, <<"/", "c">>}
Hosts == {<<"h">>, <<"g">>}
\* base_container_path arguments
Bases == {workspace, <<"w">>}
\* package_type arguments
\* a package_type the code does not know
other == <<"o", "t", "h", "e", "r">>
Kinds == {vlm_run, eval_run, other, <<>>}

---------------------------------------------------------------------------
(* The operations *)

NotWritten == [valid |-> FALSE, path |-> <<>>, doc |-> <<>>]

\* the new instance replaces the old one
Becomes(path, new) ==
    /\ cfg_path' = path
    /\ assigned' = new.assigned
    /\ cfg' = new.cfg
    /\ volumes' = new.volumes
    /\ cfg_container' = new.cfg_container
    /\ ret' = new.ret
    /\ cfg_at_init' = new.cfg
    /\ UNCHANGED <<fs, last_written, n_mut, n_ext>>

\* ConfigManager(path, default)
Construct(path, default) == Becomes(path, init_result(path, default))

\* self.write_config()
WriteConfig ==
    /\ Constructed
    /\ IF fs[cfg_path].kind = "dir"
       THEN /\ ret' = Raise("write_config", cfg_path, "IsADirectoryError", <<>>)
            /\ UNCHANGED <<fs, last_written>>
       ELSE /\ fs' = [fs EXCEPT ![cfg_path] = File(json_dump(cfg))]
            /\ last_written' = [valid |-> TRUE, path |-> cfg_path, doc |-> cfg]
            /\ ret' = Return("write_config", cfg_path, <<>>, <<cfg_path>>)
    /\ UNCHANGED <<assigned, cfg_path, cfg, volumes, cfg_container, cfg_at_init, n_mut, n_ext>>

\* ConfigManager.read_config(path), a static method
ReadConfig(path) ==
    /\ ret' = read_config(path)
    /\ UNCHANGED <<fs, assigned, cfg_path, cfg, volumes, cfg_container, cfg_at_init,
                   last_written, n_mut, n_ext>>

\* a faulty variant of get_volumes, which also stores what it returns
GetVolumesStoring(base_container_path) ==
    /\ Constructed
    /\ ret' = Return("get_volumes", base_container_path,
                     get_volumes(cfg, base_container_path), <<>>)
    /\ volumes' = get_volumes(cfg, base_container_path)
    /\ UNCHANGED <<fs, assigned, cfg_path, cfg, cfg_container, cfg_at_init,
                   last_written, n_mut, n_ext>>

\* self.get_volumes(base_container_path)
GetVolumes(base_container_path) ==
    /\ Constructed
    /\ ret' = Return("get_volumes", base_container_path,
                     get_volumes(cfg, base_container_path), <<>>)
    /\ UNCHANGED <<fs, assigned, cfg_path, cfg, volumes, cfg_container, cfg_at_init,
                   last_written, n_mut, n_ext>>

\* self.get_container_config()
GetContainerConfig ==
    /\ Constructed
    /\ ret' = Return("get_container_config", <<>>, get_container_config(cfg), <<>>)
    /\ UNCHANGED <<fs, assigned, cfg_path, cfg, volumes, cfg_container, cfg_at_init,
                   last_written, n_mut, n_ext>>

\* self.load_packages(package_type)
LoadPackages(package_type) ==
    /\ Constructed
    /\ ret' = load_packages(cfg, package_type)
    /\ UNCHANGED <<fs, assigned, cfg_path, cfg, volumes, cfg_container, cfg_at_init,
                   last_written, n_mut, n_ext>>

\* the caller changes the document in place
Mutated(doc) ==
    /\ Constructed
    /\ n_mut < MaxMutations
    /\ cfg' = doc
    /\ n_mut' = n_mut + 1
    /\ ret' = NoCall
    /\ UNCHANGED <<fs, assigned, cfg_path, volumes, cfg_container, cfg_at_init, last_written,
                   n_ext>>

\* config.cfg[dir_type][dir_name] = host_path (config.cfg[dir_type] = {...} when there is none)
MutateSetEntry(dir_type, dir_name, host_path) ==
    Mutated(Put(cfg, dir_type,
                Obj(Put(GetOr(cfg, dir_type, Obj(<<>>)).v, dir_name, Str(host_path)))))

\* config.cfg[key] = path
MutateSetField(key, path) == Mutated(Put(cfg, key, Str(path)))

\* del config.cfg[key]
MutateDelete(key) == Constructed /\ Has(cfg, key) /\ Mutated(Del(cfg, key))

\* someone else creates, replaces or removes what is at path
ExternalWrite(path, entry) ==
    /\ n_ext < MaxExternalWrites
    /\ fs[path] # entry
    /\ fs' = [fs EXCEPT ![path] = entry]
    /\ n_ext' = n_ext + 1
    /\ last_written' = IF last_written.valid /\ last_written.path = path THEN NotWritten
                       ELSE last_written
    /\ ret' = NoCall
    /\ UNCHANGED <<assigned, cfg_path, cfg, volumes, cfg_container, cfg_at_init, n_mut>>

---------------------------------------------------------------------------
(* The life of an instance: construction, mutation, persistence, the views *)

\* a host path with the characters json.dump escapes
OddHost == <<"\"", "\\", "\\", "\r", "\n">>

\* a document with a host path under two names, and one that needs escaping
StartDoc ==
    << <<data_dirs, Obj(<< <<<<"a">>, Str(<<"h">>)>>, <<<<"b">>, Str(OddHost)>> >>)>>,
       <<system_dirs, Obj(<< <<<<"a">>, Str(<<"h">>)>> >>)>>,
       <<vlm_run \o packages_suffix, Str(ReqPath)>> >>

\* a file that is not JSON, a file that holds a str, a file written by hand, and
\* a file written by write_config
CfgFileTexts ==
    { <<"{", "\"", "a", "\"", ":", " ", "\"", "b", "\"">>, <<"\"", "a", "\"">>,
      <<" ", "{", "\"", "d", "a", "t", "a", "_", "d", "i", "r", "s", "\"", ":", "{", "\"", "a",
        "\"", ":", "\"", "h", "\"", ",", "\"", "a", "\"", ":", "\"", "g", "\"", "}", " ", ",",
        "\r", "\n", "\"", "k", "\"", ":", "\"", "\\", "/", "\\", "t", "\"", "}", "\n">>,
      json_dump(StartDoc) }

CfgFileStarts == {Absent} \cup {File(t) : t \in CfgFileTexts}

\* the files other than the configuration file, as a behaviour starts
OtherFiles(p) ==
    CASE p = DirPath -> Directory
      [] p = ReqPath -> File(ExampleText)
      [] p = DefaultVlmReq -> File(<<"a", "\r", "\n", "\t", "b", " ", " ", "\n">>)
      [] OTHER -> Absent

NewInstance ==
    /\ assigned = {}
    /\ cfg_path = <<>>
    /\ cfg = <<>>
    /\ volumes = <<>>
    /\ cfg_container = <<>>
    /\ cfg_at_init = <<>>
    /\ ret = NoCall

\* no instance yet, and the files as given
StartFrom(files) ==
    /\ fs = files
    /\ NewInstance
    /\ last_written = NotWritten
    /\ n_mut = 0
    /\ n_ext = 0

Init ==
    \E e \in CfgFileStarts : StartFrom([p \in Paths |-> IF p = CfgPath THEN e ELSE OtherFiles(p)])

\* what others put in place of the configuration file
ExternalText == <<"{", "}">>

Next ==
    \/ \E path \in {CfgPath, DirPath}, default \in BOOLEAN : Construct(path, default)
    \/ WriteConfig
    \/ ReadConfig(CfgPath)
    \/ GetVolumes(workspace)
    \/ GetContainerConfig
    \/ LoadPackages(vlm_run)
    \/ MutateSetEntry(system_dirs, <<"a">>, <<"g">>)
    \/ MutateSetField(vlm_run \o packages_suffix, DirPath)
    \/ MutateDelete(data_dirs)
    \/ ExternalWrite(CfgPath, File(ExternalText))

Spec == Init /\ [][Next]_vars

---------------------------------------------------------------------------
(* The views of a document: the configuration file holds any document      *)
(* with up to MaxEntries entries per category                              *)

\* the entries of a category: no name twice, in any order
ItemSeqs ==
    UNION { {s \in [1..n -> Names \X Hosts] : \A i, j \in 1..n : i # j => s[i][1] # s[j][1]} :
            n \in 0..MaxEntries }

Category(dir_type, items) ==
    <<dir_type, Obj([i \in DOMAIN items |-> <<items[i][1], Str(items[i][2])>>])>>

\* a category is absent (<<>>) or has entries (<<items>>)
CategoryChoices == {<<>>} \cup {<<s>> : s \in ItemSeqs}

\* a scalar field, whose value is also a host path, then the categories the
\* document has, in either order
DeriveDoc(dd, sd, swapped) ==
    LET d == IF dd = <<>> THEN <<>> ELSE <<Category(data_dirs, dd[1])>>
        s == IF sd = <<>> THEN <<>> ELSE <<Category(system_dirs, sd[1])>>
    IN  << <<vlm_base, Str(<<"h">>)>> >> \o (IF swapped THEN s \o d ELSE d \o s)

DeriveDocs == {DeriveDoc(dd, sd, sw) : dd \in CategoryChoices, sd \in CategoryChoices,
        sw \in BOOLEAN}

InitDerive ==
    \E doc \in DeriveDocs :
        StartFrom([p \in Paths |-> IF p = CfgPath THEN File(json_dump(doc))
                                         ELSE OtherFiles(p)])

NextDerive ==
    \/ Construct(CfgPath, FALSE)
    \/ \E base \in Bases : GetVolumes(base)
    \/ GetContainerConfig

SpecDerive == InitDerive /\ [][NextDerive]_vars

---------------------------------------------------------------------------
(* The package lists: the document names requirements files, and the       *)
(* requirements file holds any text of up to MaxFileLen characters         *)

ReqAlphabet == {"a", " ", "\n"}
ReqTexts == UNION {[1..n -> ReqAlphabet] : n \in 0..MaxFileLen}
\* line ends of other platforms, tabs, a line twice
OddTexts == {ExampleText, <<"a", "\r", "\n", "\t", "b", " ", " ", "\r", " ", "\r", "b">>,
        <<"\f", " ", "a", " ", "a", "\t", "\n", "\r", "\n", "a", " ", "a">>}

\* what a *_packages field holds, when the document has it
FieldChoices == {<<>>} \cup {<<v>> : v \in {<<>>, ReqPath, DirPath, MissingPath}}

PackageDoc(v, e) ==
    (IF v = <<>> THEN <<>> ELSE << <<vlm_run \o packages_suffix, Str(v[1])>> >>)
    \o (IF e = <<>> THEN <<>> ELSE << <<eval_run \o packages_suffix, Str(e[1])>> >>)

PackageCases ==
    {[doc |-> PackageDoc(<<ReqPath>>, <<>>), req |-> File(t)] : t \in ReqTexts \cup OddTexts}
    \cup {[doc |-> PackageDoc(v, e), req |-> r] :
             v \in FieldChoices, e \in {<<>>, <<ReqPath>>}, r \in {Absent, File(ExampleText)}}

InitPackages ==
    \E c \in PackageCases :
        StartFrom([p \in Paths |->
                            IF p = CfgPath THEN File(json_dump(c.doc))
                            ELSE IF p = ReqPath THEN c.req
                            ELSE OtherFiles(p)])

NextPackages ==
    \/ Construct(CfgPath, FALSE)
    \/ \E kind \in Kinds : LoadPackages(kind)
    \/ ExternalWrite(ReqPath, File(ExampleText))
    \/ \E kind \in {eval_run, other} : MutateSetField(kind \o packages_suffix, ReqPath)
    \/ MutateDelete(vlm_run \o packages_suffix)

SpecPackages == InitPackages /\ [][NextPackages]_vars

---------------------------------------------------------------------------
(* The properties *)

Categories == {data_dirs, system_dirs}

\* "/" + base + "/" + category + "/" + name
Concatenated(base, dir_type, dir_name) ==
    <<"/">> \o base \o <<"/">> \o dir_type \o <<"/">> \o dir_name

\* the entries of a category of a document (none when the category is absent)
ItemsOf(doc, dir_type) == IF Has(doc, dir_type) THEN Get(doc, dir_type).v ELSE <<>>

\* the leaves of a document in the order get_volumes walks them: data_dirs
\* before system_dirs, and the names of a category in document order
Leaves(doc) ==
    LET dd == ItemsOf(doc, data_dirs)
        sd == ItemsOf(doc, system_dirs)
    IN  [i \in 1..(Len(dd) + Len(sd)) |->
            IF i <= Len(dd)
            THEN [dir_type |-> data_dirs, name |-> dd[i][1], host |-> dd[i][2].v]
            ELSE [dir_type |-> system_dirs, name |-> sd[i - Len(dd)][1],
                  host |-> sd[i - Len(dd)][2].v]]

HostsOf(doc) == {Leaves(doc)[i].host : i \in DOMAIN Leaves(doc)}

\* the last leaf of the walk that has host path h
LastLeaf(doc, h) ==
    Leaves(doc)[CHOOSE i \in DOMAIN Leaves(doc) :
                    /\ Leaves(doc)[i].host = h
                    /\ \A j \in DOMAIN Leaves(doc) : Leaves(doc)[j].host = h => j <= i]

\* C1: for every document, get_container_config() returns exactly the
\* categories of {data_dirs, system_dirs} the document has, each with exactly
\* the names of the document, and every value is "/workspace/<category>/<name>".
C1_ContainerConfigOfDocument ==
    ret.op = "get_container_config" =>
        /\ ret.status = "ok"
        /\ KeySet(ret.value) = {t \in Categories : Has(cfg, t)}
        /\ \A t \in KeySet(ret.value) :
              /\ KeySet(Get(ret.value, t)) = KeySet(Get(cfg, t).v)
              /\ \A n \in KeySet(Get(ret.value, t)) :
                    Get(Get(ret.value, t), n) = Concatenated(workspace, t, n)

\* C2: for every document and every base B, every key of get_volumes(B) is the
\* host path of a leaf of data_dirs or system_dirs, and its value is
\* "/" + B + "/" + category + "/" + name for an entry that has this host path;
\* absent categories are skipped without error.
C2_VolumesOfDocument ==
    ret.op = "get_volumes" =>
        /\ ret.status = "ok"
        /\ \A h \in KeySet(ret.value) :
              \E i \in DOMAIN Leaves(cfg) :
                  /\ Leaves(cfg)[i].host = h
                  /\ Get(ret.value, h) =
                         Concatenated(ret.arg, Leaves(cfg)[i].dir_type, Leaves(cfg)[i].name)

\* C3: read_config of the path write_config wrote, with no other write to that
\* file since, returns a document equal to the one written (also one the caller
\* mutated after construction); and a ConfigManager constructed from that path
\* holds that document, with volumes and cfg_container computed from it.
C3_RoundTrip ==
    last_written.valid =>
        /\ (ret.op = "read_config" /\ ret.arg = last_written.path) =>
              /\ ret.status = "ok"
              /\ IsObj(ret.value)
              /\ DictEq(ret.value.v, last_written.doc)
        /\ (ret.op = "__init__" /\ ret.opened = <<last_written.path>>) =>
              /\ ret.status = "ok"
              /\ Constructed
              /\ DictEq(cfg, last_written.doc)
              /\ volumes = get_volumes(last_written.doc, workspace)
              /\ cfg_container = get_container_config(last_written.doc)

\* C3 happens: a document the caller mutated, with a host path that needs
\* escaping, was written and read back
C3_Witness ==
    /\ ret.op = "read_config"
    /\ last_written.valid
    /\ ret.arg = last_written.path
    /\ last_written.doc # cfg_at_init
    /\ \E i \in DOMAIN Leaves(last_written.doc) : Leaves(last_written.doc)[i].host = OddHost

\* C4: constructing with a path at which there is no file and default=False
\* raises FileNotFoundError, and no field of the instance (cfg_path, cfg,
\* volumes, cfg_container) has been assigned when the error is raised.
\* (With default=True the construction opens no file and succeeds.)
C4_NothingAssignedOnFailure ==
    (ret.op = "__init__" /\ ~exists(ret.arg) /\ ret.opened = <<>> /\ ret.status # "ok") =>
        /\ ret.status = "FileNotFoundError"
        /\ assigned = {}

\* C5: load_packages(kind) raises ValueError for every kind other than
\* "vlm_run" and "eval_run", whatever the document and the files are (also when
\* the field kind_packages is missing or names no file), and reads no file.
C5_UnknownKindRefused ==
    (ret.op = "load_packages" /\ ret.arg \notin {vlm_run, eval_run}) =>
        /\ ret.status = "ValueError"
        /\ ret.opened = <<>>

\* C5 happens: an unknown kind whose field is there and names a file that exists
C5_Witness ==
    /\ ret.op = "load_packages"
    /\ ret.arg = other
    /\ Has(cfg, other \o packages_suffix)
    /\ exists(Get(cfg, other \o packages_suffix).v)

\* C6: for kind "vlm_run" or "eval_run", load_packages(kind) raises
\* FileNotFoundError when the field kind_packages of the current document is
\* absent, is empty or names a file that does not exist; it returns a list only
\* when the field is not empty and the file exists.
C6_KnownKindLookup ==
    (ret.op = "load_packages" /\ ret.arg \in {vlm_run, eval_run}) =>
        LET file_key == ret.arg \o packages_suffix
            absent == ~Has(cfg, file_key)
            empty == Has(cfg, file_key) /\ Get(cfg, file_key).v = <<>>
            missing == Has(cfg, file_key) /\ ~exists(Get(cfg, file_key).v)
        IN  /\ (absent \/ empty \/ missing) => ret.status = "FileNotFoundError"
            /\ ret.status = "ok" =>
                  /\ ~absent /\ ~empty /\ ~missing
                  /\ ret.opened = <<Get(cfg, file_key).v>>

\* C6 happens: the field was deleted from the document after construction
C6_Witness ==
    /\ ret.op = "load_packages"
    /\ ret.arg = vlm_run
    /\ ~Has(cfg, vlm_run \o packages_suffix)
    /\ Has(cfg_at_init, vlm_run \o packages_suffix)
    /\ ret.status = "FileNotFoundError"

LineBreaks == {"\n", "\r"}

\* a line of text starts at its begin and after every line break
LineStarts(text) == {i \in 1..(Len(text) + 1) : i = 1 \/ text[i - 1] \in LineBreaks}

\* the line that starts at i, without its line break
LineAt(text, i) ==
    SubSeq(text, i, (CHOOSE j \in i..(Len(text) + 1) :
                        /\ j = Len(text) + 1 \/ text[j] \in LineBreaks
                        /\ \A q \in i..(j - 1) : text[q] \notin LineBreaks) - 1)

\* a line without the whitespace around it
RECURSIVE Trimmed(_)
Trimmed(line) ==
    IF line = <<>> THEN line
    ELSE IF Head(line) \in Whitespace THEN Trimmed(Tail(line))
    ELSE IF line[Len(line)] \in Whitespace THEN Trimmed(SubSeq(line, 1, Len(line) - 1))
    ELSE line

\* the trimmed lines of a text that are not empty, in the order of the text
TrimmedLines(text) ==
    LET kept == {i \in LineStarts(text) : Trimmed(LineAt(text, i)) # <<>>}
    IN  [k \in 1..Cardinality(kept) |->
            Trimmed(LineAt(text, CHOOSE i \in kept : Cardinality({j \in kept : j <= i}) = k))]

\* the package list of the example
ExampleLines == <<<<"f", "o", "o">>, <<"b", "a", "r">>>>

\* C7: when load_packages succeeds, it returns the lines of the file as it is at
\* the call, trimmed, without the lines that are empty after trimming, in file
\* order and with duplicates; no element is empty or has whitespace at an end;
\* "\n foo \n\nbar\n" yields ["foo", "bar"].
C7_TrimmedLinesOfFile ==
    (ret.op = "load_packages" /\ ret.status = "ok") =>
        /\ ret.value = TrimmedLines(fs[ret.opened[1]].text)
        /\ \A k \in DOMAIN ret.value :
              /\ ret.value[k] # <<>>
              /\ Head(ret.value[k]) \notin Whitespace
              /\ ret.value[k][Len(ret.value[k])] \notin Whitespace
        /\ fs[ret.opened[1]].text = ExampleText => ret.value = ExampleLines

\* C7 happens: the file was replaced after the instance was constructed, and the
\* call returns the lines of the new text
C7_Witness ==
    /\ ret.op = "load_packages"
    /\ ret.status = "ok"
    /\ n_ext > 0
    /\ ret.value = ExampleLines

\* C8: volumes and cfg_container are computed once, at construction, and stay
\* as derived then, whatever the caller does to the document and whichever of
\* get_volumes, get_container_config, load_packages and write_config is called;
\* a call of get_volumes or get_container_config returns what the document as
\* it is now yields.
C8_CachedViewsStay ==
    Constructed =>
        /\ volumes = get_volumes(cfg_at_init, workspace)
        /\ cfg_container = get_container_config(cfg_at_init)
        /\ ret.op = "get_volumes" => ret.value = get_volumes(cfg, ret.arg)
        /\ ret.op = "get_container_config" => ret.value = get_container_config(cfg)

\* C8 happens: after a mutation, get_volumes returns another mapping than the
\* cached one
C8_Witness ==
    /\ Constructed
    /\ n_mut > 0
    /\ ret.op = "get_volumes"
    /\ ret.arg = workspace
    /\ ret.value # volumes

\* C9: the values of get_container_config() are the container paths of
\* self.volumes: after construction, cfg_container[c][n] = volumes[cfg[c][n]]
\* for every category c and every name n of cfg[c].
C9_ContainerConfigFromVolumes ==
    (ret.op = "__init__" /\ ret.status = "ok") =>
        \A i \in DOMAIN Leaves(cfg) :
            Get(Get(cfg_container, Leaves(cfg)[i].dir_type), Leaves(cfg)[i].name)
                = Get(volumes, Leaves(cfg)[i].host)

\* C10: when a host path is the value of several entries, get_volumes raises
\* nothing and the mapping has one entry for it, with the container path of the
\* entry processed last (data_dirs before system_dirs, the names of a category
\* in document order); the mapping has as many entries as the leaves have
\* distinct host paths.
C10_LaterEntryWins ==
    ret.op = "get_volumes" =>
        /\ ret.status = "ok"
        /\ KeySet(ret.value) = HostsOf(cfg)
        /\ Len(ret.value) = Cardinality(HostsOf(cfg))
        /\ \A h \in HostsOf(cfg) :
              Get(ret.value, h) = container_path(ret.arg, LastLeaf(cfg, h).dir_type,
                                                 LastLeaf(cfg, h).name)

\* C10 happens: a host path under both categories, in a document that has
\* system_dirs before data_dirs
C10_Witness ==
    /\ ret.op = "get_volumes"
    /\ Len(cfg) = 3
    /\ cfg[2][1] = system_dirs
    /\ \E i, j \in DOMAIN Leaves(cfg) :
          /\ Leaves(cfg)[i].host = Leaves(cfg)[j].host
          /\ Leaves(cfg)[i].dir_type = data_dirs
          /\ Leaves(cfg)[j].dir_type = system_dirs
    /\ Len(ret.value) < Len(Leaves(cfg))

====
